---------------------------- MODULE Spec2Model ----------------------------
(***************************************************************************)
(* A model of tinc's src/protocol_misc.c: the miscellaneous requests of    *)
(* the meta protocol (STATUS, ERROR, TERMREQ, PING, PONG, PACKET and       *)
(* UDP_INFO), their handlers and their senders.                            *)
(*                                                                         *)
(* A request is a line of text: here a sequence of one-character strings.  *)
(* sscanf and the printf-style formatting of send_request are modelled on  *)
(* characters, as libc performs them.                                      *)
(***************************************************************************)
EXTENDS Integers, Sequences, FiniteSets, TLC

(***************************************************************************)
(* Characters and the two libc conversions the handlers rest on.           *)
(***************************************************************************)

NULL == "NULL"

Digits == <<"0", "1", "2", "3", "4", "5", "6", "7", "8", "9">>

IsSpace(ch) == ch \in {" ", "\t", "\n"}

IsDigit(ch) == \E i \in 1..10 : Digits[i] = ch

DigitVal(ch) == (CHOOSE i \in 1..10 : Digits[i] = ch) - 1

IsAlpha(ch) == ch \in {"a", "b", "m", "r", "x", "z", "A", "B", "R", "X", "Z"}

Tail2(s) == SubSeq(s, 2, Len(s))

RECURSIVE SkipSpace(_)
SkipSpace(s) ==
    IF s # <<>> /\ IsSpace(s[1]) THEN SkipSpace(Tail2(s)) ELSE s

\* The longest prefix of digits of s, as a number, and what follows it.
RECURSIVE ScanDigits(_, _)
ScanDigits(s, acc) ==
    IF s # <<>> /\ IsDigit(s[1])
    THEN ScanDigits(Tail2(s), acc * 10 + DigitVal(s[1]))
    ELSE [val |-> acc, rest |-> s]

\* The longest prefix of non-space characters of s, at most width long.
RECURSIVE ScanWord(_, _, _)
ScanWord(s, width, acc) ==
    IF s # <<>> /\ ~IsSpace(s[1]) /\ width > 0
    THEN ScanWord(Tail2(s), width - 1, Append(acc, s[1]))
    ELSE [val |-> acc, rest |-> s]

\* short int: the width of the object "%hd" stores into.
SHRT_BITS == 16

\* The value of an int converted to short int (two's complement, wrapping).
ToShort(v) == ((v + 2 ^ (SHRT_BITS - 1)) % (2 ^ SHRT_BITS)) - 2 ^ (SHRT_BITS - 1)

EOF == -1

\* One conversion of sscanf: "%d" and "%hd" skip white space, then take an
\* optional sign and at least one digit; "%s" skips white space, then takes
\* the non-space characters up to its width.  status is "ok", "mismatch" (a
\* matching failure) or "eof" (an input failure: the input ended first).
Convert(dir, s) ==
    LET t == SkipSpace(s) IN
    IF t = <<>> THEN [status |-> "eof", val |-> NULL, rest |-> t]
    ELSE IF dir.conv = "s"
    THEN LET w == ScanWord(t, dir.width, <<>>)
         IN  [status |-> "ok", val |-> w.val, rest |-> w.rest]
    ELSE LET signed == t[1] \in {"-", "+"}
             u == IF signed THEN Tail2(t) ELSE t
             d == ScanDigits(u, 0)
             v == IF signed /\ t[1] = "-" THEN 0 - d.val ELSE d.val
         IN  IF u = <<>> \/ ~IsDigit(u[1])
             THEN [status |-> "mismatch", val |-> NULL, rest |-> u]
             ELSE [status |-> "ok",
                   val |-> IF dir.conv = "hd" THEN ToShort(v) ELSE v,
                   rest |-> d.rest]

\* sscanf(s, fmt, ...): the conversions of fmt in order (the white space
\* between them matches any white space, which each conversion skips anyway).
\* n counts the assigned conversions ("%*d" assigns nothing); an input failure
\* before the first assignment gives EOF.  vals are the values assigned.
RECURSIVE Sscanf(_, _, _)
Sscanf(s, fmt, vals) ==
    IF fmt = <<>> THEN [n |-> Len(vals), vals |-> vals]
    ELSE LET c == Convert(fmt[1], s) IN
         CASE c.status = "ok" ->
                Sscanf(c.rest, Tail2(fmt),
                       IF fmt[1].suppress THEN vals ELSE Append(vals, c.val))
           [] c.status = "mismatch" -> [n |-> Len(vals), vals |-> vals]
           [] OTHER -> [n |-> IF vals = <<>> THEN EOF ELSE Len(vals), vals |-> vals]

\* MAX_STRING is "%2048s": MAX_STRING_SIZE - 1 characters.
MAX_STRING_WIDTH == 2048

SkipD == [conv |-> "d", suppress |-> TRUE, width |-> 0]
ConvD == [conv |-> "d", suppress |-> FALSE, width |-> 0]
ConvHD == [conv |-> "hd", suppress |-> FALSE, width |-> 0]
MAX_STRING == [conv |-> "s", suppress |-> FALSE, width |-> MAX_STRING_WIDTH]

\* "%d": the decimal digits of n, with a minus sign when n is negative.
RECURSIVE NatToStr(_)
NatToStr(n) ==
    IF n < 10 THEN <<Digits[n + 1]>>
    ELSE Append(NatToStr(n \div 10), Digits[(n % 10) + 1])

IntToStr(n) == IF n < 0 THEN <<"-">> \o NatToStr(0 - n) ELSE NatToStr(n)

\* The fields of a request, separated by one space each.
RECURSIVE Join(_)
Join(fields) ==
    IF Len(fields) = 0 THEN <<>>
    ELSE IF Len(fields) = 1 THEN fields[1]
    ELSE fields[1] \o <<" ">> \o Join(Tail2(fields))

(***************************************************************************)
(* Binary floating point (IEEE 754, round to nearest, ties to even), as    *)
(* the comparison of send_tcppacket computes with it.  A natural number is *)
(* a sequence of digits in base 2^7, least significant first, with no      *)
(* leading zero.  A floating-point value is "nan", "inf", or the finite    *)
(* (-1)^neg * m * 2^e.  Each operation is the exact result rounded to the  *)
(* precision of its type: FLT_MANT_DIG bits for float, DBL_MANT_DIG bits   *)
(* for double.                                                             *)
(***************************************************************************)

FLT_MANT_DIG == 24
DBL_MANT_DIG == 53
RAND_MAX == 2147483647

DigitBits == 7
Base == 2 ^ DigitBits

RECURSIVE Big(_)
Big(n) == IF n = 0 THEN <<>> ELSE <<n % Base>> \o Big(n \div Base)

RECURSIVE BigToInt(_)
BigToInt(a) == IF a = <<>> THEN 0 ELSE a[1] + Base * BigToInt(Tail2(a))

RECURSIVE Trim(_)
Trim(a) ==
    IF a # <<>> /\ a[Len(a)] = 0 THEN Trim(SubSeq(a, 1, Len(a) - 1)) ELSE a

Rest(a) == IF a = <<>> THEN a ELSE Tail2(a)

Low(a) == IF a = <<>> THEN 0 ELSE a[1]

RECURSIVE BigAdd(_, _, _)
BigAdd(a, b, carry) ==
    IF a = <<>> /\ b = <<>> THEN Big(carry)
    ELSE <<(Low(a) + Low(b) + carry) % Base>>
         \o BigAdd(Rest(a), Rest(b), (Low(a) + Low(b) + carry) \div Base)

\* a - b - borrow, for a >= b + borrow, not trimmed.
RECURSIVE BigSubRaw(_, _, _)
BigSubRaw(a, b, borrow) ==
    IF a = <<>> THEN <<>>
    ELSE <<(Low(a) - Low(b) - borrow) % Base>>
         \o BigSubRaw(Rest(a), Rest(b), IF Low(a) - Low(b) - borrow < 0 THEN 1 ELSE 0)

BigSub(a, b) == Trim(BigSubRaw(a, b, 0))

\* -1, 0 or 1 as a < b, a = b or a > b: by length, then from the top digit down.
RECURSIVE BigCmpFrom(_, _, _)
BigCmpFrom(a, b, i) ==
    IF i = 0 THEN 0
    ELSE IF a[i] # b[i] THEN (IF a[i] < b[i] THEN -1 ELSE 1)
    ELSE BigCmpFrom(a, b, i - 1)

BigCmp(a, b) ==
    IF Len(a) # Len(b) THEN (IF Len(a) < Len(b) THEN -1 ELSE 1)
    ELSE BigCmpFrom(a, b, Len(a))

\* a * d + carry for a number d below 2^24.
RECURSIVE BigMulSmall(_, _, _)
BigMulSmall(a, d, carry) ==
    IF a = <<>> THEN Big(carry)
    ELSE <<(a[1] * d + carry) % Base>>
         \o BigMulSmall(Tail2(a), d, (a[1] * d + carry) \div Base)

RECURSIVE BigMul(_, _)
BigMul(a, b) ==
    IF a = <<>> \/ b = <<>> THEN <<>>
    ELSE BigAdd(BigMulSmall(a, b[1], 0), Trim(<<0>> \o BigMul(a, Tail2(b))), 0)

\* One step of short division by d: prev is the quotient and remainder of the
\* digits above, digit the next digit down.
BigDivStep(prev, digit, d) ==
    [q |-> <<(prev.r * Base + digit) \div d>> \o prev.q,
     r |-> (prev.r * Base + digit) % d]

\* The quotient and remainder of the digits i and above of a, divided by the
\* number d, 0 < d <= 2^24.
RECURSIVE BigDivFrom(_, _, _)
BigDivFrom(a, d, i) ==
    IF i > Len(a) THEN [q |-> <<>>, r |-> 0]
    ELSE BigDivStep(BigDivFrom(a, d, i + 1), a[i], d)

BigDivSmall(a, d) ==
    [q |-> Trim(BigDivFrom(a, d, 1).q), r |-> BigDivFrom(a, d, 1).r]

\* The number of bits of a.
BitLen(a) ==
    IF a = <<>> THEN 0
    ELSE DigitBits * (Len(a) - 1)
         + (CHOOSE k \in 1..DigitBits : 2 ^ (k - 1) <= a[Len(a)] /\ a[Len(a)] < 2 ^ k)

\* a * 2^k.
ShiftLeft(a, k) ==
    IF a = <<>> THEN a
    ELSE [i \in 1..(k \div DigitBits) |-> 0] \o BigMulSmall(a, 2 ^ (k % DigitBits), 0)

\* a \div 2^k and a % 2^k.
DivModPow2(a, k) ==
    LET j == k \div DigitBits
        s == 2 ^ (k % DigitBits)
    IN  IF j >= Len(a) THEN [q |-> <<>>, r |-> a]
        ELSE [q |-> BigDivSmall(SubSeq(a, j + 1, Len(a)), s).q,
              r |-> Trim(SubSeq(a, 1, j) \o <<a[j + 1] % s>>)]

Finite(neg, m, e) == [class |-> "finite", neg |-> neg, m |-> m, e |-> e]
Inf(neg) == [class |-> "inf", neg |-> neg, m |-> <<>>, e |-> 0]
NaN == [class |-> "nan", neg |-> FALSE, m |-> <<>>, e |-> 0]

\* (-1)^neg * (m + s) * 2^e, with 0 <= s < 1 and s > 0 iff sticky, rounded to
\* p significant bits: to the nearest, a tie to the even one.
Round(p, neg, m, e, sticky) ==
    IF BitLen(m) <= p THEN Finite(neg, m, e)
    ELSE LET k == BitLen(m) - p
             d == DivModPow2(m, k)
             c == BigCmp(d.r, ShiftLeft(<<1>>, k - 1))
             up == c > 0 \/ (c = 0 /\ (sticky \/ d.q[1] % 2 = 1))
         IN  Finite(neg, IF up THEN BigAdd(d.q, <<1>>, 0) ELSE d.q, e + k)

\* (T)n for an int n and a floating type T of p bits.
FromInt(p, n) == Round(p, n < 0, Big(IF n < 0 THEN 0 - n ELSE n), 0, FALSE)

FMul(p, x, y) ==
    IF x.class = "nan" \/ y.class = "nan" THEN NaN
    ELSE IF x.class = "inf" \/ y.class = "inf"
    THEN (IF (x.class = "finite" /\ x.m = <<>>) \/ (y.class = "finite" /\ y.m = <<>>)
          THEN NaN ELSE Inf(x.neg # y.neg))
    ELSE Round(p, x.neg # y.neg, BigMul(x.m, y.m), x.e + y.e, FALSE)

\* x / y for a divisor y of float precision (its m is at most 2^24).  The
\* quotient is computed to at least two bits more than p, the rest is sticky.
FDiv(p, x, y) ==
    IF x.class = "nan" \/ y.class = "nan" THEN NaN
    ELSE IF x.class = "inf" THEN (IF y.class = "inf" THEN NaN ELSE Inf(x.neg # y.neg))
    ELSE IF y.class = "inf" THEN Finite(x.neg # y.neg, <<>>, 0)
    ELSE IF y.m = <<>> THEN (IF x.m = <<>> THEN NaN ELSE Inf(x.neg # y.neg))
    ELSE LET shift == p + 2 + BitLen(y.m)
             d == BigDivSmall(ShiftLeft(x.m, shift), BigToInt(y.m))
         IN  Round(p, x.neg # y.neg, d.q, x.e - y.e - shift, d.r # 0)

\* The magnitudes of two finite values on their common exponent.
Aligned(x, y) ==
    LET e == IF x.e < y.e THEN x.e ELSE y.e
    IN  [x |-> ShiftLeft(x.m, x.e - e), y |-> ShiftLeft(y.m, y.e - e), e |-> e]

FSub(p, x, y) ==
    IF x.class = "nan" \/ y.class = "nan" THEN NaN
    ELSE IF x.class = "inf"
    THEN (IF y.class = "inf" /\ x.neg = y.neg THEN NaN ELSE x)
    ELSE IF y.class = "inf" THEN Inf(~y.neg)
    ELSE LET a == Aligned(x, y)
             c == BigCmp(a.x, a.y)
         IN  IF x.neg # y.neg THEN Round(p, x.neg, BigAdd(a.x, a.y, 0), a.e, FALSE)
             ELSE IF c >= 0 THEN Round(p, x.neg, BigSub(a.x, a.y), a.e, FALSE)
             ELSE Round(p, ~x.neg, BigSub(a.y, a.x), a.e, FALSE)

\* x > y: false when either is a NaN.
FGreater(x, y) ==
    IF x.class = "nan" \/ y.class = "nan" THEN FALSE
    ELSE IF x.class = "inf" THEN ~x.neg /\ ~(y.class = "inf" /\ ~y.neg)
    ELSE IF y.class = "inf" THEN y.neg
    ELSE LET a == Aligned(x, y)
             c == BigCmp(a.x, a.y)
         IN  IF x.m = <<>> /\ y.m = <<>> THEN FALSE
             ELSE IF x.m = <<>> THEN y.neg
             ELSE IF y.m = <<>> THEN ~x.neg
             ELSE IF x.neg # y.neg THEN y.neg
             ELSE IF x.neg THEN c < 0 ELSE c > 0

\* The condition of the random early drop of send_tcppacket,
\*   2.0 * c->outbuf.len / (float)maxoutbufsize - 1 > (float)rand()/(float)RAND_MAX
\* for outbuf.len = len, maxoutbufsize = max and rand() = r: the left side is
\* computed in double, the right side in float.
DropProbability(len, max) ==
    FSub(DBL_MANT_DIG,
         FDiv(DBL_MANT_DIG,
              FMul(DBL_MANT_DIG, FromInt(DBL_MANT_DIG, 2), FromInt(DBL_MANT_DIG, len)),
              FromInt(FLT_MANT_DIG, max)),
         FromInt(DBL_MANT_DIG, 1))

RandomDraw(r) ==
    FDiv(FLT_MANT_DIG, FromInt(FLT_MANT_DIG, r), FromInt(FLT_MANT_DIG, RAND_MAX))

RandomEarlyDrop(len, max, r) == FGreater(DropProbability(len, max), RandomDraw(r))

(***************************************************************************)
(* The request numbers of protocol.h (enum request_t).                     *)
(***************************************************************************)

STATUS == 5
ERROR == 6
TERMREQ == 7
PING == 8
PONG == 9
PACKET == 17
UDP_INFO == 22

(***************************************************************************)
(* The state.                                                              *)
(*                                                                         *)
(* A pointer to a string or to a structure is a sequence: <<>> is the null *)
(* pointer and <<x>> points to x.  A pointer that is only compared (cfg,   *)
(* ai, aip, a node's connection) is a name, or NULL.                       *)
(*                                                                         *)
(* connection[c] is a connection_t: status.pinged, last_ping_time, tcplen, *)
(* outgoing (a pointer to the outgoing_t with timeout, cfg, ai and aip)    *)
(* and outbuf.len.  node[n] is a node_t.  freed[a] counts the calls of     *)
(* freeaddrinfo on the list a.  call records the last operation: its       *)
(* name, its connection and request, what it returned, the requests and    *)
(* payloads it handed to send_request and send_meta, the priorities of     *)
(* its logger calls, the value rand() gave it (NoRand when it did not call *)
(* rand), the packet it was given (a pointer) and the nodes it gave to     *)
(* send_udp_info (NULL when it did not call it).  pingsent[c] is history: *)
(* "sent" when send_request has accepted a PING of send_ping on c since    *)
(* the last PONG received on c, "refused" when send_ping was called since  *)
(* but no PING was accepted, "none" otherwise.                             *)
(***************************************************************************)

VARIABLES connection, node, maxoutbufsize, now, freed, call, pingsent

vars == <<connection, node, maxoutbufsize, now, freed, call, pingsent>>

Conns == {"c1", "c2"}

\* rand() was not called.
NoRand == -1

\* A returned call: the record kept in the variable call.
Returned(op, c, request, ret, sent, logged) ==
    [op |-> op, c |-> c, request |-> request, ret |-> ret,
     sent |-> sent, logged |-> logged, rand |-> NoRand, packet |-> <<>>,
     from |-> NULL, to |-> NULL]

\* send_request(c, format, ...): the formatted line handed to the connection.
\* ok is what send_request returns (it fails when the line does not fit its
\* buffer or the transport refuses it).
Request(c, fields, ok) ==
    [kind |-> "request", c |-> c, line |-> Join(fields), ok |-> ok]

(***************************************************************************)
(* Status and error notification routines.                                 *)
(***************************************************************************)

send_status(c, statusno, statusstring, ok) ==
    LET str == IF statusstring = <<>> THEN <<"S", "t", "a", "t", "u", "s">>
               ELSE statusstring[1]
    IN  /\ call' = Returned("send_status", c, <<>>, ok,
                     <<Request(c, <<IntToStr(STATUS), IntToStr(statusno), str>>, ok)>>,
                     <<>>)
        /\ UNCHANGED <<connection, node, maxoutbufsize, now, freed, pingsent>>

\* status_h accepting every line.
status_h_never_rejects(c, request) ==
    /\ call' = Returned("status_h", c, request, TRUE, <<>>, <<"LOG_NOTICE">>)
    /\ UNCHANGED <<connection, node, maxoutbufsize, now, freed, pingsent>>

\* status_h ending as error_h does: with "return false".
status_h_as_error(c, request) ==
    LET got == Sscanf(request, <<SkipD, ConvD, MAX_STRING>>, <<>>) IN
    /\ call' = IF got.n # 2
               THEN Returned("status_h", c, request, FALSE, <<>>, <<"LOG_ERR">>)
               ELSE Returned("status_h", c, request, FALSE, <<>>, <<"LOG_NOTICE">>)
    /\ UNCHANGED <<connection, node, maxoutbufsize, now, freed, pingsent>>

status_h(c, request) ==
    LET got == Sscanf(request, <<SkipD, ConvD, MAX_STRING>>, <<>>) IN
    /\ call' = IF got.n # 2
               THEN Returned("status_h", c, request, FALSE, <<>>, <<"LOG_ERR">>)
               ELSE Returned("status_h", c, request, TRUE, <<>>, <<"LOG_NOTICE">>)
    /\ UNCHANGED <<connection, node, maxoutbufsize, now, freed, pingsent>>

send_error(c, err, errstring, ok) ==
    LET str == IF errstring = <<>> THEN <<"E", "r", "r", "o", "r">>
               ELSE errstring[1]
    IN  /\ call' = Returned("send_error", c, <<>>, ok,
                     <<Request(c, <<IntToStr(ERROR), IntToStr(err), str>>, ok)>>,
                     <<>>)
        /\ UNCHANGED <<connection, node, maxoutbufsize, now, freed, pingsent>>

\* error_h ending as status_h does: with "return true".
error_h_as_status(c, request) ==
    LET got == Sscanf(request, <<SkipD, ConvD, MAX_STRING>>, <<>>) IN
    /\ call' = IF got.n # 2
               THEN Returned("error_h", c, request, FALSE, <<>>, <<"LOG_ERR">>)
               ELSE Returned("error_h", c, request, TRUE, <<>>, <<"LOG_NOTICE">>)
    /\ UNCHANGED <<connection, node, maxoutbufsize, now, freed, pingsent>>

error_h(c, request) ==
    LET got == Sscanf(request, <<SkipD, ConvD, MAX_STRING>>, <<>>) IN
    /\ call' = IF got.n # 2
               THEN Returned("error_h", c, request, FALSE, <<>>, <<"LOG_ERR">>)
               ELSE Returned("error_h", c, request, FALSE, <<>>, <<"LOG_NOTICE">>)
    /\ UNCHANGED <<connection, node, maxoutbufsize, now, freed, pingsent>>

send_termreq(c, ok) ==
    /\ call' = Returned("send_termreq", c, <<>>, ok,
                 <<Request(c, <<IntToStr(TERMREQ)>>, ok)>>, <<>>)
    /\ UNCHANGED <<connection, node, maxoutbufsize, now, freed, pingsent>>

termreq_h(c, request) ==
    /\ call' = Returned("termreq_h", c, request, FALSE, <<>>, <<>>)
    /\ UNCHANGED <<connection, node, maxoutbufsize, now, freed, pingsent>>

(***************************************************************************)
(* PING and PONG.                                                          *)
(***************************************************************************)

send_ping(c, ok) ==
    /\ connection' = [connection EXCEPT ![c].pinged = TRUE,
                                        ![c].last_ping_time = now]
    /\ call' = Returned("send_ping", c, <<>>, ok,
                 <<Request(c, <<IntToStr(PING)>>, ok)>>, <<>>)
    /\ pingsent' = [pingsent EXCEPT ![c] = IF ok \/ @ = "sent" THEN "sent"
                                          ELSE "refused"]
    /\ UNCHANGED <<node, maxoutbufsize, now, freed>>

\* send_pong(c) as an expression: the request it hands to send_request.
send_pong(c, ok) == Request(c, <<IntToStr(PONG)>>, ok)

\* ping_h dropping the result of send_pong.
ping_h_ignores_result(c, request, ok) ==
    /\ call' = Returned("ping_h", c, request, TRUE, <<send_pong(c, ok)>>, <<>>)
    /\ UNCHANGED <<connection, node, maxoutbufsize, now, freed, pingsent>>

ping_h(c, request, ok) ==
    /\ call' = Returned("ping_h", c, request, ok, <<send_pong(c, ok)>>, <<>>)
    /\ UNCHANGED <<connection, node, maxoutbufsize, now, freed, pingsent>>

\* The body without "c->outgoing->ai = NULL".
ResetOutgoing_keeps_ai(outgoing) ==
    [outgoing EXCEPT !.timeout = 0, !.cfg = NULL, !.aip = NULL]

\* The body of "if(c->outgoing)": the outgoing_t afterwards.
ResetOutgoing(outgoing) ==
    [outgoing EXCEPT !.timeout = 0, !.cfg = NULL, !.ai = NULL, !.aip = NULL]

\* The freeaddrinfo call of that body: made when ai is not null.
FreeOutgoing(outgoing, heap) ==
    IF outgoing.ai # NULL THEN [heap EXCEPT ![outgoing.ai] = @ + 1] ELSE heap

\* pong_h without "c->status.pinged = false".
pong_h_keeps_pinged(c, request) ==
    LET outgoing == connection[c].outgoing IN
    /\ connection' = [connection EXCEPT
                        ![c].outgoing = IF outgoing # <<>>
                                        THEN <<ResetOutgoing(outgoing[1])>>
                                        ELSE outgoing]
    /\ freed' = IF outgoing # <<>> THEN FreeOutgoing(outgoing[1], freed) ELSE freed
    /\ call' = Returned("pong_h", c, request, TRUE, <<>>, <<>>)
    /\ pingsent' = [pingsent EXCEPT ![c] = "none"]
    /\ UNCHANGED <<node, maxoutbufsize, now>>

pong_h(c, request) ==
    LET outgoing == connection[c].outgoing IN
    /\ connection' = [connection EXCEPT
                        ![c].pinged = FALSE,
                        ![c].outgoing = IF outgoing # <<>>
                                        THEN <<ResetOutgoing(outgoing[1])>>
                                        ELSE outgoing]
    /\ freed' = IF outgoing # <<>> THEN FreeOutgoing(outgoing[1], freed) ELSE freed
    /\ call' = Returned("pong_h", c, request, TRUE, <<>>, <<>>)
    /\ pingsent' = [pingsent EXCEPT ![c] = "none"]
    /\ UNCHANGED <<node, maxoutbufsize, now>>

(***************************************************************************)
(* Sending and receiving packets via TCP.                                  *)
(***************************************************************************)

\* send_meta(c, buffer, length): the raw bytes handed to the connection.
Meta(c, buffer, length, ok) ==
    [kind |-> "meta", c |-> c, buffer |-> buffer, length |-> length, ok |-> ok]

\* send_tcppacket writing the framing line before it decides to drop.
send_tcppacket_frames_first(c, packet, r, ok1, ok2) ==
    LET line == <<IntToStr(PACKET), IntToStr(ToShort(packet.len))>>
        ret == IF ~ok1
               THEN Returned("send_tcppacket", c, <<>>, FALSE,
                             <<Request(c, line, FALSE)>>, <<>>)
               ELSE IF RandomEarlyDrop(connection[c].outbuf_len, maxoutbufsize, r)
               THEN Returned("send_tcppacket", c, <<>>, TRUE,
                             <<Request(c, line, TRUE)>>, <<>>)
               ELSE Returned("send_tcppacket", c, <<>>, ok2,
                             <<Request(c, line, TRUE),
                               Meta(c, packet.data, packet.len, ok2)>>, <<>>)
    IN  /\ call' = [ret EXCEPT !.rand = r, !.packet = <<packet>>]
        /\ UNCHANGED <<connection, node, maxoutbufsize, now, freed, pingsent>>

\* r is the value of rand(); ok1 and ok2 are what send_request and send_meta
\* return when they are called.  "%hd" prints packet->len converted to short.
send_tcppacket(c, packet, r, ok1, ok2) ==
    LET line == <<IntToStr(PACKET), IntToStr(ToShort(packet.len))>>
        ret == IF RandomEarlyDrop(connection[c].outbuf_len, maxoutbufsize, r)
               THEN Returned("send_tcppacket", c, <<>>, TRUE, <<>>, <<>>)
               ELSE IF ~ok1
               THEN Returned("send_tcppacket", c, <<>>, FALSE,
                             <<Request(c, line, FALSE)>>, <<>>)
               ELSE Returned("send_tcppacket", c, <<>>, ok2,
                             <<Request(c, line, TRUE),
                               Meta(c, packet.data, packet.len, ok2)>>, <<>>)
    IN  /\ call' = [ret EXCEPT !.rand = r, !.packet = <<packet>>]
        /\ UNCHANGED <<connection, node, maxoutbufsize, now, freed, pingsent>>

\* tcppacket_h resetting tcplen when it rejects the line.
tcppacket_h_resets(c, request) ==
    LET got == Sscanf(request, <<SkipD, ConvHD>>, <<>>) IN
    IF got.n # 1
    THEN /\ connection' = [connection EXCEPT ![c].tcplen = 0]
         /\ call' = Returned("tcppacket_h", c, request, FALSE, <<>>, <<"LOG_ERR">>)
         /\ UNCHANGED <<node, maxoutbufsize, now, freed, pingsent>>
    ELSE /\ connection' = [connection EXCEPT ![c].tcplen = got.vals[1]]
         /\ call' = Returned("tcppacket_h", c, request, TRUE, <<>>, <<>>)
         /\ UNCHANGED <<node, maxoutbufsize, now, freed, pingsent>>

tcppacket_h(c, request) ==
    LET got == Sscanf(request, <<SkipD, ConvHD>>, <<>>) IN
    IF got.n # 1
    THEN /\ call' = Returned("tcppacket_h", c, request, FALSE, <<>>, <<"LOG_ERR">>)
         /\ UNCHANGED <<connection, node, maxoutbufsize, now, freed, pingsent>>
    ELSE /\ connection' = [connection EXCEPT ![c].tcplen = got.vals[1]]
         /\ call' = Returned("tcppacket_h", c, request, TRUE, <<>>, <<>>)
         /\ UNCHANGED <<node, maxoutbufsize, now, freed, pingsent>>

(***************************************************************************)
(* Transmitting UDP information.                                           *)
(*                                                                         *)
(* A node_t is written as one character, myself as "m"; node[n] holds its  *)
(* name, via, nexthop,                                                     *)
(* connection, options, status.reachable, status.udp_confirmed and         *)
(* address.  options is the 32-bit word: the flags below, the version in   *)
(* its top byte.  A sockaddr_t is its family with the address and port it  *)
(* holds: for AF_INET the numbers, written in decimal; for AF_UNKNOWN the  *)
(* two strings it was made from.                                           *)
(***************************************************************************)

Nodes == {"m", "a", "b", "r"}

myself == "m"

Name(n) == <<n>>

OPTION_TCPONLY == 2

\* options & bit, for a bit that is a power of two.
HasOption(options, bit) == (options \div bit) % 2 = 1

\* OPTION_VERSION(options): options >> 24.
OptionVersion(options) == options \div (2 ^ 24)

\* check_id: a name is not empty and holds only letters, digits and "_".
check_id(id) ==
    /\ id # <<>>
    /\ \A i \in 1..Len(id) : IsAlpha(id[i]) \/ IsDigit(id[i]) \/ id[i] = "_"

\* lookup_node: the node of that name in the node table, or NULL.
lookup_node(table, name) ==
    IF \E n \in DOMAIN table : table[n].name = name
    THEN CHOOSE n \in DOMAIN table : table[n].name = name
    ELSE NULL

IsNumber(str) == str # <<>> /\ \A i \in 1..Len(str) : IsDigit(str[i])

\* str2sockaddr: a numeric address and port give an AF_INET address, anything
\* else an AF_UNKNOWN one that keeps the two strings.
str2sockaddr(address, port) ==
    IF IsNumber(address) /\ IsNumber(port)
    THEN [family |-> "AF_INET",
          address |-> NatToStr(ScanDigits(address, 0).val),
          port |-> NatToStr(ScanDigits(port, 0).val)]
    ELSE [family |-> "AF_UNKNOWN", address |-> address, port |-> port]

\* sockaddr2str: the address and the port as text.
sockaddr2str(sa) == [address |-> sa.address, port |-> sa.port]

\* sockaddrcmp(a, b) # 0.
sockaddrcmp(a, b) == a # b

\* update_node_udp(n, sa): the node table with n's address set to sa.
update_node_udp(table, n, sa) == [table EXCEPT ![n].address = sa]

RelayCollapse_keeps_to(table, to) ==
    IF table[to].via = myself THEN table[to].nexthop ELSE to

\* "to" after the first statement of send_udp_info.
RelayCollapse(table, to) ==
    IF table[to].via = myself THEN table[to].nexthop ELSE table[to].via

SkipUdpInfo_trusts_from(table, from, to) ==
    \/ to = myself
    \/ ~table[to].reachable
    \/ from = myself /\ table[to].connection # NULL
    \/ HasOption(table[myself].options, OPTION_TCPONLY)
    \/ HasOption(table[to].options, OPTION_TCPONLY)
    \/ OptionVersion(table[table[to].nexthop].options) < 5

\* The conditions under which send_udp_info returns true without sending.
SkipUdpInfo(table, from, to) ==
    \/ to = myself
    \/ ~table[to].reachable
    \/ from = myself /\ table[to].connection # NULL
    \/ HasOption(table[myself].options, OPTION_TCPONLY)
    \/ HasOption(table[from].options, OPTION_TCPONLY)
    \/ HasOption(table[to].options, OPTION_TCPONLY)
    \/ OptionVersion(table[table[to].nexthop].options) < 5

send_udp_info_call_names_to(table, from, to, ok) ==
    LET to2 == RelayCollapse(table, to)
        c == table[table[to2].nexthop].connection
        sa == IF from # myself THEN table[from].address
              ELSE connection[c].local_address
        str == sockaddr2str(sa)
    IN  IF SkipUdpInfo(table, from, to2) THEN [ret |-> TRUE, sent |-> <<>>]
        ELSE [ret |-> ok,
              sent |-> <<Request(c, <<IntToStr(UDP_INFO), table[from].name,
                                      table[to].name,
                                      str.address, str.port>>, ok)>>]

\* send_udp_info(from, to) on the node table: what it returns and what it
\* hands to send_request, whose result is ok.
send_udp_info_call(table, from, to, ok) ==
    LET to2 == RelayCollapse(table, to)
        c == table[table[to2].nexthop].connection
        sa == IF from # myself THEN table[from].address
              ELSE connection[c].local_address
        str == sockaddr2str(sa)
    IN  IF SkipUdpInfo(table, from, to2) THEN [ret |-> TRUE, sent |-> <<>>]
        ELSE [ret |-> ok,
              sent |-> <<Request(c, <<IntToStr(UDP_INFO), table[from].name,
                                      table[to2].name,
                                      str.address, str.port>>, ok)>>]

send_udp_info(from, to, ok) ==
    LET r == send_udp_info_call(node, from, to, ok) IN
    /\ call' = [Returned("send_udp_info", NULL, <<>>, r.ret, r.sent, <<>>)
                  EXCEPT !.from = from, !.to = to]
    /\ UNCHANGED <<connection, node, maxoutbufsize, now, freed, pingsent>>

LearnAddress_ignores_confirmed(table, from, from_address, from_port) ==
    IF table[from].connection = NULL
       /\ sockaddrcmp(str2sockaddr(from_address, from_port), table[from].address)
    THEN update_node_udp(table, from, str2sockaddr(from_address, from_port))
    ELSE table

\* The address learning of udp_info_h: the node table afterwards.
LearnAddress(table, from, from_address, from_port) ==
    IF table[from].connection = NULL /\ ~table[from].udp_confirmed
       /\ sockaddrcmp(str2sockaddr(from_address, from_port), table[from].address)
    THEN update_node_udp(table, from, str2sockaddr(from_address, from_port))
    ELSE table

udp_info_h_call_swaps(table, c, request, ok) ==
    LET got == Sscanf(request, <<SkipD, MAX_STRING, MAX_STRING, MAX_STRING, MAX_STRING>>, <<>>)
        from_name == got.vals[1]
        to_name == got.vals[2]
        from == lookup_node(table, from_name)
        to == lookup_node(table, to_name)
        learnt == LearnAddress(table, from, got.vals[3], got.vals[4])
        r == send_udp_info_call(learnt, to, from, ok)
        Stop(ret, log, t) == [ret |-> ret, sent |-> <<>>, logged |-> <<log>>,
                              table |-> t, from |-> NULL, to |-> NULL]
    IN  IF got.n # 4 THEN Stop(FALSE, "LOG_ERR", table)
        ELSE IF ~check_id(from_name) \/ ~check_id(to_name)
        THEN Stop(FALSE, "LOG_ERR", table)
        ELSE IF from = NULL THEN Stop(TRUE, "LOG_ERR", table)
        ELSE IF from # table[from].via THEN Stop(TRUE, "LOG_WARNING", table)
        ELSE IF to = NULL THEN Stop(TRUE, "LOG_ERR", learnt)
        ELSE [ret |-> r.ret, sent |-> r.sent, logged |-> <<>>,
              table |-> learnt, from |-> from, to |-> to]

udp_info_h_call_closes_on_unknown(table, c, request, ok) ==
    LET got == Sscanf(request, <<SkipD, MAX_STRING, MAX_STRING, MAX_STRING, MAX_STRING>>, <<>>)
        from_name == got.vals[1]
        to_name == got.vals[2]
        from == lookup_node(table, from_name)
        to == lookup_node(table, to_name)
        learnt == LearnAddress(table, from, got.vals[3], got.vals[4])
        r == send_udp_info_call(learnt, from, to, ok)
        Stop(ret, log, t) == [ret |-> ret, sent |-> <<>>, logged |-> <<log>>,
                              table |-> t, from |-> NULL, to |-> NULL]
    IN  IF got.n # 4 THEN Stop(FALSE, "LOG_ERR", table)
        ELSE IF ~check_id(from_name) \/ ~check_id(to_name)
        THEN Stop(FALSE, "LOG_ERR", table)
        ELSE IF from = NULL THEN Stop(FALSE, "LOG_ERR", table)
        ELSE IF from # table[from].via THEN Stop(TRUE, "LOG_WARNING", table)
        ELSE IF to = NULL THEN Stop(TRUE, "LOG_ERR", learnt)
        ELSE [ret |-> r.ret, sent |-> r.sent, logged |-> <<>>,
              table |-> learnt, from |-> from, to |-> to]

udp_info_h_call_ignores_relay(table, c, request, ok) ==
    LET got == Sscanf(request, <<SkipD, MAX_STRING, MAX_STRING, MAX_STRING, MAX_STRING>>, <<>>)
        from_name == got.vals[1]
        to_name == got.vals[2]
        from == lookup_node(table, from_name)
        to == lookup_node(table, to_name)
        learnt == LearnAddress(table, from, got.vals[3], got.vals[4])
        r == send_udp_info_call(learnt, from, to, ok)
        Stop(ret, log, t) == [ret |-> ret, sent |-> <<>>, logged |-> <<log>>,
                              table |-> t, from |-> NULL, to |-> NULL]
    IN  IF got.n # 4 THEN Stop(FALSE, "LOG_ERR", table)
        ELSE IF ~check_id(from_name) \/ ~check_id(to_name)
        THEN Stop(FALSE, "LOG_ERR", table)
        ELSE IF from = NULL THEN Stop(TRUE, "LOG_ERR", table)
        ELSE IF to = NULL THEN Stop(TRUE, "LOG_ERR", learnt)
        ELSE [ret |-> r.ret, sent |-> r.sent, logged |-> <<>>,
              table |-> learnt, from |-> from, to |-> to]

udp_info_h_call_forwards_first(table, c, request, ok) ==
    LET got == Sscanf(request, <<SkipD, MAX_STRING, MAX_STRING, MAX_STRING, MAX_STRING>>, <<>>)
        from_name == got.vals[1]
        to_name == got.vals[2]
        from == lookup_node(table, from_name)
        to == lookup_node(table, to_name)
        learnt == LearnAddress(table, from, got.vals[3], got.vals[4])
        r == send_udp_info_call(table, from, to, ok)
        Stop(ret, log, t) == [ret |-> ret, sent |-> <<>>, logged |-> <<log>>,
                              table |-> t, from |-> NULL, to |-> NULL]
    IN  IF got.n # 4 THEN Stop(FALSE, "LOG_ERR", table)
        ELSE IF ~check_id(from_name) \/ ~check_id(to_name)
        THEN Stop(FALSE, "LOG_ERR", table)
        ELSE IF from = NULL THEN Stop(TRUE, "LOG_ERR", table)
        ELSE IF from # table[from].via THEN Stop(TRUE, "LOG_WARNING", table)
        ELSE IF to = NULL THEN Stop(TRUE, "LOG_ERR", learnt)
        ELSE [ret |-> r.ret, sent |-> r.sent, logged |-> <<>>,
              table |-> learnt, from |-> from, to |-> to]

\* udp_info_h on the node table: what it returns, sends and logs, the node
\* table afterwards and the nodes it gave to send_udp_info.
udp_info_h_call(table, c, request, ok) ==
    LET got == Sscanf(request, <<SkipD, MAX_STRING, MAX_STRING, MAX_STRING, MAX_STRING>>, <<>>)
        from_name == got.vals[1]
        to_name == got.vals[2]
        from == lookup_node(table, from_name)
        to == lookup_node(table, to_name)
        learnt == LearnAddress(table, from, got.vals[3], got.vals[4])
        r == send_udp_info_call(learnt, from, to, ok)
        Stop(ret, log, t) == [ret |-> ret, sent |-> <<>>, logged |-> <<log>>,
                              table |-> t, from |-> NULL, to |-> NULL]
    IN  IF got.n # 4 THEN Stop(FALSE, "LOG_ERR", table)
        ELSE IF ~check_id(from_name) \/ ~check_id(to_name)
        THEN Stop(FALSE, "LOG_ERR", table)
        ELSE IF from = NULL THEN Stop(TRUE, "LOG_ERR", table)
        ELSE IF from # table[from].via THEN Stop(TRUE, "LOG_WARNING", table)
        ELSE IF to = NULL THEN Stop(TRUE, "LOG_ERR", learnt)
        ELSE [ret |-> r.ret, sent |-> r.sent, logged |-> <<>>,
              table |-> learnt, from |-> from, to |-> to]

udp_info_h(c, request, ok) ==
    LET r == udp_info_h_call(node, c, request, ok) IN
    /\ node' = r.table
    /\ call' = [Returned("udp_info_h", c, request, r.ret, r.sent, r.logged)
                  EXCEPT !.from = r.from, !.to = r.to]
    /\ UNCHANGED <<connection, maxoutbufsize, now, freed, pingsent>>

(***************************************************************************)
(* What this file does not set: the clock and the output buffer.           *)
(***************************************************************************)

MaxTime == 1

\* The event loop advances now.
Tick ==
    /\ now < MaxTime
    /\ now' = now + 1
    /\ UNCHANGED <<connection, node, maxoutbufsize, freed, call, pingsent>>

\* The transport queues and flushes: outbuf.len of c becomes len.
Transport(c, len) ==
    /\ connection[c].outbuf_len # len
    /\ connection' = [connection EXCEPT ![c].outbuf_len = len]
    /\ UNCHANGED <<node, maxoutbufsize, now, freed, call, pingsent>>

\* No operation is running and none has just returned.
NoCall == Returned("idle", NULL, <<>>, TRUE, <<>>, <<>>)

Idle == call = NoCall

\* The caller has taken the result of the operation that returned.
Return ==
    /\ ~Idle
    /\ call' = NoCall
    /\ UNCHANGED <<connection, node, maxoutbufsize, now, freed, pingsent>>

(***************************************************************************)
(* The initial states.                                                     *)
(***************************************************************************)

AddrInfos == {"ai"}

\* The outgoing_t of a connection we initiated, in any state of its retries.
OutgoingStates ==
    [timeout : {0, 5}, cfg : {NULL, "cfg"}, ai : AddrInfos \cup {NULL},
     aip : {NULL, "aip"}]

Inet(address, port) == [family |-> "AF_INET", address |-> address, port |-> port]

Version(v) == v * 2 ^ 24

NodeRec(n, via, nexthop, c, options, reachable, confirmed, address) ==
    [name |-> Name(n), via |-> via, nexthop |-> nexthop, connection |-> c, options |-> options,
     reachable |-> reachable, udp_confirmed |-> confirmed, address |-> address]

\* How the graph can place a node n that is not a neighbour: behind the
\* neighbour r, with itself, r or the local node as its relay.
Behind(n, via, reachable, confirmed, options) ==
    NodeRec(n, via, "r", NULL, options, reachable, confirmed, Inet(<<"1">>, <<"2">>))

\* A neighbour n on connection c.
Neighbour(n, via, c, options) ==
    NodeRec(n, via, n, c, options, TRUE, TRUE, Inet(<<"1">>, <<"2">>))

\* The node tables with the options and placements given: the local node m, the
\* neighbour r on c2, a either a neighbour on c1 or behind r, b behind r.
NodeTables(mOptions, rOptions, aPlaces, bPlaces) ==
    { [n \in Nodes |->
         CASE n = "m" -> NodeRec("m", "m", "m", NULL, mo, TRUE, FALSE, Inet(<<"9">>, <<"9">>))
           [] n = "r" -> Neighbour("r", "r", "c2", ro)
           [] n = "a" -> a
           [] n = "b" -> b] :
      mo \in mOptions, ro \in rOptions, a \in aPlaces, b \in bPlaces }

APlaces ==
    {Neighbour("a", "a", "c1", Version(5)),
     Behind("a", "a", TRUE, FALSE, Version(5)),
     Behind("a", "a", TRUE, TRUE, Version(5)),
     Behind("a", "r", TRUE, FALSE, Version(5))}

BPlaces ==
    {Behind("b", via, reachable, FALSE, options) :
       via \in {"b", "r"}, reachable \in BOOLEAN,
       options \in {Version(5), Version(5) + OPTION_TCPONLY}}

InitWith(outgoings, tables, maxes, lens) ==
    /\ connection \in
         { [c \in Conns |->
              [pinged |-> FALSE, last_ping_time |-> 0, tcplen |-> 0,
               outgoing |-> IF c = "c2" THEN <<o>> ELSE <<>>,
               outbuf_len |-> len,
               local_address |-> Inet(<<"7">>, <<"7">>)]] :
           o \in outgoings, len \in lens }
    /\ node \in tables
    /\ maxoutbufsize \in maxes
    /\ now = 0
    /\ freed = [a \in AddrInfos |-> 0]
    /\ call = NoCall
    /\ pingsent = [c \in Conns |-> "none"]

(***************************************************************************)
(* The requests received and the arguments of the senders.                 *)
(***************************************************************************)

\* The lines of at most n words of the set words, one space between them.
RECURSIVE Lines(_, _)
Lines(words, n) ==
    IF n = 0 THEN {<<>>}
    ELSE Lines(words, n - 1)
         \cup {Join(<<w, l>>) : w \in words, l \in Lines(words, n - 1) \ {<<>>}}
         \cup words

\* Every line of at most n characters of the set chars.
RECURSIVE Texts(_, _)
Texts(chars, n) ==
    IF n = 0 THEN {<<>>}
    ELSE Texts(chars, n - 1)
         \cup {Append(l, ch) : l \in Texts(chars, n - 1), ch \in chars}

MaxLine == 4

\* STATUS and ERROR lines: every text of a digit, a letter and a space, and
\* some with a sign.
StatusLines ==
    Texts({"5", "x", " "}, MaxLine)
    \cup Lines({<<"5">>, <<"-", "5">>, <<"-">>}, 3)
    \cup {<<"5", " ", "+", "5", " ", "x">>, <<"5", " ", "+", " ", "x">>}

\* PACKET lines: every text of a digit, a letter and a space, and some of
\* another length and with a sign.
PacketLines ==
    Texts({"0", "x", " "}, MaxLine - 1)
    \cup Lines({<<"5">>, <<"-">>}, 2)

NameWords == {<<"a">>, <<"b">>, <<"r">>, <<"m">>, <<"z">>, <<"-">>}

AddressWords == {<<"3">>, <<"x">>}

PortWords == {<<"2">>}

\* UDP_INFO lines: the well-formed ones, and lines of fewer or other words.
UdpInfoLines ==
    {Join(<<IntToStr(UDP_INFO), f, t, a, p>>) :
       f \in NameWords, t \in NameWords, a \in AddressWords, p \in PortWords}
    \cup Lines({<<"2", "2">>, <<"a">>, <<"-">>}, 4)
    \cup {<<"x", " ", "a", " ", "b", " ", "1", " ", "2">>}

\* A few lines of each request, for the specification of all operations.
FewStatusLines == {<<"5", " ", "1", " ", "x">>, <<"5", " ", "x">>, <<"5">>}

FewPacketLines == {<<"1", "7", " ", "5">>, <<"1", "7", " ", "x">>}

FewUdpInfoLines ==
    {Join(<<IntToStr(UDP_INFO), f, t, <<"3">>, <<"2">>>>) :
       f \in {<<"a">>, <<"b">>, <<"z">>, <<"-">>}, t \in {<<"b">>, <<"r">>, <<"z">>}}
    \cup {<<"2", "2", " ", "a">>}

Packets == [len : {0, 5}, data : {"data"}]

RandValues == {0, RAND_MAX \div 2, RAND_MAX}

(***************************************************************************)
(* The specifications.  An operation starts when none is running and ends  *)
(* with call holding what it returned, which Return then hands over.       *)
(***************************************************************************)

Receive(c, statusLines, packetLines, udpInfoLines) ==
    \/ \E request \in statusLines : Idle /\ status_h(c, request)
    \/ \E request \in statusLines : Idle /\ error_h(c, request)
    \/ Idle /\ termreq_h(c, IntToStr(TERMREQ))
    \/ \E ok \in BOOLEAN : Idle /\ ping_h(c, IntToStr(PING), ok)
    \/ Idle /\ pong_h(c, IntToStr(PONG))
    \/ \E request \in packetLines : Idle /\ tcppacket_h(c, request)
    \/ \E request \in udpInfoLines, ok \in BOOLEAN : Idle /\ udp_info_h(c, request, ok)

Send(c) ==
    \/ \E statusno \in {0, 7}, str \in {<<>>, <<<<"x">>>>}, ok \in BOOLEAN :
          Idle /\ send_status(c, statusno, str, ok)
    \/ \E err \in {0, 7}, str \in {<<>>, <<<<"x">>>>}, ok \in BOOLEAN :
          Idle /\ send_error(c, err, str, ok)
    \/ \E ok \in BOOLEAN : Idle /\ send_termreq(c, ok)
    \/ \E ok \in BOOLEAN : Idle /\ send_ping(c, ok)
    \/ \E packet \in Packets, r \in RandValues, ok1 \in BOOLEAN, ok2 \in BOOLEAN :
          Idle /\ send_tcppacket(c, packet, r, ok1, ok2)

\* A daemon with the incoming connection c1 and the outgoing connection c2 to
\* its neighbour r, and the nodes a and b behind r.
OneOutgoing == [timeout |-> 5, cfg |-> "cfg", ai |-> "ai", aip |-> "aip"]

FewTables ==
    NodeTables({Version(5)}, {Version(5)},
               {Behind("a", "a", TRUE, FALSE, Version(5))},
               {Behind("b", "r", TRUE, FALSE, Version(5))})

\* Spec: every operation of the file, on a few requests each, while the clock
\* advances.
Init == InitWith({OneOutgoing}, FewTables, {10}, {0})

Next ==
    \/ \E c \in Conns : Receive(c, FewStatusLines, FewPacketLines, FewUdpInfoLines)
    \/ \E c \in Conns : Send(c)
    \/ \E from \in Nodes, to \in Nodes, ok \in BOOLEAN :
          Idle /\ send_udp_info(from, to, ok)
    \/ Idle /\ Tick
    \/ Return

Spec == Init /\ [][Next]_vars

\* An outgoing_t after a PONG.
ProvenOutgoing == [timeout |-> 0, cfg |-> NULL, ai |-> NULL, aip |-> NULL]

\* SpecReceive: the seven request handlers, on every request of the sets above.
InitReceive ==
    InitWith({ProvenOutgoing},
             NodeTables({Version(5)}, {Version(5)}, APlaces,
                        {Behind("b", "b", TRUE, TRUE, Version(5))}),
             {10}, {0})

NextReceive ==
    \/ \E c \in Conns : Receive(c, StatusLines, PacketLines, UdpInfoLines)
    \/ Return

SpecReceive == InitReceive /\ [][NextReceive]_vars

\* SpecPing: PING and PONG on both connections while the clock advances, from
\* every state of the outgoing connection's retries.
InitPing == InitWith(OutgoingStates, FewTables, {10}, {0})

NextPing ==
    \/ \E c \in Conns, ok \in BOOLEAN : Idle /\ send_ping(c, ok)
    \/ \E c \in Conns, ok \in BOOLEAN : Idle /\ ping_h(c, IntToStr(PING), ok)
    \/ \E c \in Conns : Idle /\ pong_h(c, IntToStr(PONG))
    \/ Idle /\ Tick
    \/ Return

SpecPing == InitPing /\ [][NextPing]_vars

\* SpecPacket: packets sent and received via TCP while the transport fills and
\* drains the output buffers, for the configured sizes of the output buffer
\* (0 is the value this file gives maxoutbufsize).
BufSizes == {0, 10, 33554434}

QueueLens == {0, 5, 10, 11, 16777217, 33554434}

DrawValues ==
    {0, 127, 128, RAND_MAX \div 2, RAND_MAX - 64, RAND_MAX - 63, RAND_MAX}

InitPacket == InitWith({OneOutgoing}, FewTables, BufSizes, {0})

NextPacket ==
    \/ \E c \in Conns, packet \in Packets, r \in DrawValues,
          ok1 \in BOOLEAN, ok2 \in BOOLEAN :
          Idle /\ send_tcppacket(c, packet, r, ok1, ok2)
    \/ \E c \in Conns, request \in FewPacketLines : Idle /\ tcppacket_h(c, request)
    \/ \E c \in Conns, len \in QueueLens : Idle /\ Transport(c, len)
    \/ Return

SpecPacket == InitPacket /\ [][NextPacket]_vars

\* The framing line that send_request accepted for the packet of the last
\* send_tcppacket arrives at a daemon running this code, on its connection c.
PacketArrives(c) ==
    /\ call.op = "send_tcppacket"
    /\ Len(call.sent) = 2
    /\ tcppacket_h(c, call.sent[1].line)

\* SpecFraming: packets of every size a 16-bit length holds are sent on a
\* connection with an empty output buffer, and their framing lines received.
FramedPackets == [len : {0, 5, 32767, 32768, 40000, 65535}, data : {"data"}]

InitFraming == InitWith({OneOutgoing}, FewTables, {10}, {0})

NextFraming ==
    \/ \E c \in Conns, packet \in FramedPackets, ok1 \in BOOLEAN, ok2 \in BOOLEAN :
          Idle /\ send_tcppacket(c, packet, 0, ok1, ok2)
    \/ \E c \in Conns : PacketArrives(c)
    \/ \E c \in Conns, request \in FewPacketLines : Idle /\ tcppacket_h(c, request)
    \/ Return

SpecFraming == InitFraming /\ [][NextFraming]_vars

\* SpecUdp: send_udp_info is called for every pair of nodes and UDP_INFO
\* requests arrive, on node tables with every placement of a and b, with a
\* TCP-only or old node, and with the local node as the relay of its neighbour.
Lonely == {Behind("a", "a", TRUE, FALSE, Version(5))}

Distant == {Behind("b", "b", TRUE, FALSE, Version(5))}

RelayedTables ==
    { [t EXCEPT !["r"].via = "m"] :
        t \in NodeTables({Version(5)}, {Version(5)},
                         {Neighbour("a", "a", "c1", Version(5)),
                          Behind("a", "m", TRUE, FALSE, Version(5))},
                         {Behind("b", "m", TRUE, FALSE, Version(5))}) }

UdpTables ==
    NodeTables({Version(5)}, {Version(5)}, APlaces, BPlaces)
    \cup NodeTables({Version(5) + OPTION_TCPONLY}, {Version(5)}, Lonely, Distant)
    \cup NodeTables({Version(5)}, {Version(4)}, Lonely, Distant)
    \cup NodeTables({Version(5)}, {Version(5)},
                    {Neighbour("a", "a", "c1", Version(5) + OPTION_TCPONLY)}, Distant)
    \cup RelayedTables

UdpLines ==
    {Join(<<IntToStr(UDP_INFO), f, t, address, <<"2">>>>) :
       f \in {<<"a">>, <<"b">>, <<"m">>, <<"z">>, <<"-">>},
       t \in {<<"a">>, <<"b">>, <<"r">>, <<"m">>, <<"z">>},
       address \in {<<"1">>, <<"3">>}}
    \cup {<<"2", "2", " ", "a">>}

InitUdp == InitWith({OneOutgoing}, UdpTables, {0}, {0})

NextUdp ==
    \/ \E from \in Nodes, to \in Nodes, ok \in BOOLEAN :
          Idle /\ send_udp_info(from, to, ok)
    \/ \E c \in Conns, request \in UdpLines, ok \in BOOLEAN :
          Idle /\ udp_info_h(c, request, ok)
    \/ Return

SpecUdp == InitUdp /\ [][NextUdp]_vars

(***************************************************************************)
(* A mesh of daemons running this code: a, m, r and b in a line, each       *)
(* connected to the next.  In SpecMesh node[d] is the node table of daemon *)
(* d and connection holds the connections of all of them.  Pointers are    *)
(* local to a daemon: each calls itself "m" and keeps the node named m     *)
(* under the pointer that bears its own name.  The graph gives every       *)
(* daemon the shortest path to a node: its nexthop is the first node of    *)
(* the path, its via the last node before the first indirect edge of the   *)
(* path.  The connections are reliable: send_request succeeds and the line *)
(* arrives.                                                                *)
(***************************************************************************)

Order == <<"a", "m", "r", "b">>

Pos(g) == CHOOSE i \in 1..Len(Order) : Order[i] = g

\* The pointer that daemon d has for the node named g, and back.
Swap(d, g) == IF g = d THEN "m" ELSE IF g = "m" THEN d ELSE g

\* The connection of daemon d to its neighbour x.
Link(d, x) ==
    CASE d = "a" /\ x = "m" -> "am"
      [] d = "m" /\ x = "a" -> "ma"
      [] d = "m" /\ x = "r" -> "mr"
      [] d = "r" /\ x = "m" -> "rm"
      [] d = "r" /\ x = "b" -> "rb"
      [] d = "b" /\ x = "r" -> "br"
      [] OTHER -> NULL

MeshConns == {"am", "ma", "mr", "rm", "rb", "br"}

\* The daemon that has the connection c and the neighbour it leads to.
Ends(c) == CHOOSE e \in Nodes \X Nodes : Link(e[1], e[2]) = c

\* The first node on the path from d to g, and the last node of that path that
\* d reaches without an indirect edge; indirect holds the edges that are, each
\* as the position of its left end.
Step(d, g) == IF Pos(g) > Pos(d) THEN Order[Pos(d) + 1] ELSE Order[Pos(d) - 1]

Relay(d, g, indirect) ==
    IF Pos(g) > Pos(d)
    THEN LET crossed == {i \in Pos(d)..(Pos(g) - 1) : i \in indirect}
         IN  IF crossed = {} THEN g
             ELSE Order[CHOOSE i \in crossed : \A j \in crossed : i <= j]
    ELSE LET crossed == {i \in Pos(g)..(Pos(d) - 1) : i \in indirect}
         IN  IF crossed = {} THEN g
             ELSE Order[(CHOOSE i \in crossed : \A j \in crossed : i >= j) + 1]

\* The node table of daemon d.
TableOf(d, indirect, options) ==
    [l \in Nodes |->
       LET g == Swap(d, l)
       IN  IF g = d
           THEN NodeRec(g, "m", "m", NULL, options[g], TRUE, FALSE,
                        Inet(<<"9">>, <<"9">>))
           ELSE NodeRec(g, Swap(d, Relay(d, g, indirect)), Swap(d, Step(d, g)),
                        Link(d, g), options[g], TRUE, Link(d, g) # NULL,
                        Inet(<<"1">>, <<"2">>))]

\* Every node has version 5, or one of them is TCP-only or has version 4.
MeshOptions ==
    {[g \in Nodes |-> Version(5)]}
    \cup {[[g \in Nodes |-> Version(5)] EXCEPT ![x] = o] :
            x \in Nodes, o \in {Version(5) + OPTION_TCPONLY, Version(4)}}

\* No edge is indirect, or one is, or two are.
MeshIndirect == {i \in SUBSET (1..(Len(Order) - 1)) : i # 1..(Len(Order) - 1)}

InitMesh ==
    /\ connection =
         [c \in MeshConns |->
            [pinged |-> FALSE, last_ping_time |-> 0, tcplen |-> 0,
             outgoing |-> <<>>, outbuf_len |-> 0,
             local_address |-> Inet(<<"7">>, <<"7">>)]]
    /\ node \in {[d \in Nodes |-> TableOf(d, indirect, options)] :
                   indirect \in MeshIndirect, options \in MeshOptions}
    /\ maxoutbufsize = 0
    /\ now = 0
    /\ freed = [a \in AddrInfos |-> 0]
    /\ call = NoCall
    /\ pingsent = [c \in MeshConns |-> "none"]

\* A request is on its way to the daemon at the other end of its connection.
InFlight == call.sent # <<>>

\* Daemon d starts a hint: send_udp_info(myself, to).
Originate(d, to) ==
    LET r == send_udp_info_call(node[d], myself, to, TRUE) IN
    /\ Idle
    /\ call' = [Returned("send_udp_info", NULL, <<>>, r.ret, r.sent, <<>>)
                  EXCEPT !.from = myself, !.to = to]
    /\ UNCHANGED <<connection, node, maxoutbufsize, now, freed, pingsent>>

\* The request on its way arrives: the daemon at the other end of the
\* connection runs udp_info_h on it.
Deliver ==
    /\ InFlight
    /\ LET msg == call.sent[1]
           d == Ends(msg.c)[2]
           c == Link(d, Ends(msg.c)[1])
           r == udp_info_h_call(node[d], c, msg.line, TRUE)
       IN  /\ node' = [node EXCEPT ![d] = r.table]
           /\ call' = [Returned("udp_info_h", c, msg.line, r.ret, r.sent, r.logged)
                         EXCEPT !.from = r.from, !.to = r.to]
    /\ UNCHANGED <<connection, maxoutbufsize, now, freed, pingsent>>

\* The hint has stopped and the caller takes the result.
Settle == ~InFlight /\ Return

NextMesh ==
    \/ \E d \in Nodes, to \in Nodes : Originate(d, to)
    \/ Deliver
    \/ Settle

\* The event loop of every daemon runs the handler of a line that arrived and
\* goes on when a handler has returned: Deliver and Settle are weakly fair.
\* Deliver is enabled exactly when a request is on its way, and its fairness
\* condition is written with that.
DeliverIsFair == []<>(~InFlight) \/ []<><<Deliver>>_vars

SpecMesh == InitMesh /\ [][NextMesh]_vars /\ DeliverIsFair /\ WF_vars(Settle)

(***************************************************************************)
(* What a request line carries, stated on the text of the line: blanks, an *)
(* integer (an optional sign and digits, as many digits as follow), words  *)
(* (as many characters as follow that are not blank).                      *)
(***************************************************************************)

IsBlankText(s) == \A i \in 1..Len(s) : s[i] = " "

IsIntegerText(s) ==
    \E k \in {0, 1} :
       /\ Len(s) > k
       /\ k = 1 => s[1] \in {"+", "-"}
       /\ \A i \in (k + 1)..Len(s) : IsDigit(s[i])

\* What follows the integer a text starts with: a set of at most one text.
AfterInteger(s) ==
    {SubSeq(s, k + 1, Len(s)) :
       k \in {k \in 1..Len(s) :
                /\ k = Len(s) \/ ~IsDigit(s[k + 1])
                /\ \E a \in 0..(k - 1) :
                      /\ IsBlankText(SubSeq(s, 1, a))
                      /\ IsIntegerText(SubSeq(s, a + 1, k))}}

\* The words of a text.
RECURSIVE WordsOf(_)
WordsOf(s) ==
    IF s = <<>> THEN <<>>
    ELSE IF s[1] = " " THEN WordsOf(Tail(s))
    ELSE LET n == CHOOSE n \in 2..(Len(s) + 1) :
                     /\ n = Len(s) + 1 \/ s[n] = " "
                     /\ \A i \in 1..(n - 1) : s[i] # " "
         IN  <<SubSeq(s, 1, n - 1)>> \o WordsOf(SubSeq(s, n, Len(s)))

\* The line carries, after the request number, an integer code and a string.
CarriesCodeAndString(line) ==
    \E r1 \in AfterInteger(line) : \E r2 \in AfterInteger(r1) : WordsOf(r2) # <<>>

\* The line carries, after the request number, one integer length.
CarriesLength(line) == \E r1 \in AfterInteger(line) : AfterInteger(r1) # {}

\* The words after the request number of a line.
FieldsOf(line) ==
    LET rest == AfterInteger(line)
    IN  IF rest = {} THEN <<>> ELSE WordsOf(CHOOSE r \in rest : TRUE)

CarriesFourStrings(line) == Len(FieldsOf(line)) >= 4

\* The identifier syntax: letters, digits and underscores, at least one.
IsIdentifier(w) ==
    /\ w # <<>>
    /\ \A i \in 1..Len(w) : IsAlpha(w[i]) \/ IsDigit(w[i]) \/ w[i] = "_"

Handlers ==
    {"status_h", "error_h", "termreq_h", "ping_h", "pong_h", "tcppacket_h",
     "udp_info_h"}

\* The step is a call of op: it starts with no call running and ends with the
\* call returned.
Calls(op) == Idle /\ call'.op = op

\* The call returned the close signal and logged exactly one error.
Rejected == ~call.ret /\ call.logged = <<"LOG_ERR">>

(***************************************************************************)
(* The claims.                                                             *)
(***************************************************************************)

\* C1, as stated: a request handler that returns false has changed no Node
\* state and no Connection state, udp_info_h returning false because the
\* forwarding send_udp_info failed included.
C1_Original ==
    [][(Idle /\ call'.op \in Handlers /\ ~call'.ret)
         => (node' = node /\ connection' = connection)]_vars

\* C1, amended: a request handler that returns false has changed no Connection
\* state, and no Node state either, except that udp_info_h returning false
\* because the forwarding send_udp_info failed may have recorded the address of
\* the node named from_name, and nothing else.
C1_FalseChangesNothingButLearntAddress ==
    [][(Idle /\ call'.op \in Handlers /\ ~call'.ret)
         => /\ connection' = connection
            /\ \/ node' = node
               \/ /\ call'.op = "udp_info_h"
                  /\ call'.sent # <<>>
                  /\ \E n \in Nodes :
                        /\ Name(n) = FieldsOf(call'.request)[1]
                        /\ node' = [node EXCEPT ![n].address = node'[n].address]]_vars

\* udp_info_h has returned false because the forwarding failed, and a holds an
\* address learnt from a request.
C1_Witness ==
    /\ call.op = "udp_info_h"
    /\ ~call.ret
    /\ call.sent # <<>>
    /\ node["a"].address = Inet(<<"3">>, <<"2">>)

C3_Original == call.op = "status_h" => call.ret

\* C3, amended: status_h returns true when the line carries an integer code
\* followed by a string, and false when it does not.
C3_StatusTrueIffWellFormed ==
    call.op = "status_h" => (call.ret <=> CarriesCodeAndString(call.request))

\* status_h has returned false on a STATUS line without its integer code.
C3_Witness ==
    /\ call.op = "status_h"
    /\ call.request = <<"5", " ", "x">>
    /\ ~call.ret

\* C4: error_h and termreq_h return false for every line and every state, and
\* change no Connection or Node state.
C4_ErrorAndTermreqClose ==
    [][(Calls("error_h") \/ Calls("termreq_h"))
         => (~call'.ret /\ connection' = connection /\ node' = node)]_vars

\* error_h has returned false on an ERROR line that parses.
C4_Witness ==
    /\ call.op = "error_h"
    /\ CarriesCodeAndString(call.request)
    /\ call.logged = <<"LOG_NOTICE">>
    /\ ~call.ret

\* C5: pong_h sets pinged to false and returns true; on a connection with an
\* outgoing_t its timeout is 0 and its cfg, ai and aip are null afterwards, and
\* the address list is released once if there was one; on a connection
\* without, nothing but pinged changes.  No address list is ever released
\* twice.
C5_PongProvesAlive ==
    /\ [][Calls("pong_h")
            => LET c == call'.c
                   before == connection[c].outgoing
                   after == connection'[c].outgoing
               IN  /\ call'.ret
                   /\ ~connection'[c].pinged
                   /\ node' = node
                   /\ IF before # <<>>
                      THEN /\ after # <<>>
                           /\ after[1].timeout = 0
                           /\ after[1].cfg = NULL
                           /\ after[1].ai = NULL
                           /\ after[1].aip = NULL
                           /\ connection' = [connection EXCEPT ![c].pinged = FALSE,
                                                               ![c].outgoing = after]
                           /\ \A a \in AddrInfos :
                                 freed'[a] = freed[a] + IF before[1].ai = a THEN 1 ELSE 0
                      ELSE /\ connection' = [connection EXCEPT ![c].pinged = FALSE]
                           /\ freed' = freed]_vars
    /\ [](\A a \in AddrInfos : freed[a] <= 1)

\* pong_h has returned on the outgoing connection, whose address list has been
\* released and which was waiting for this PONG.
C5_Witness ==
    /\ call.op = "pong_h"
    /\ call.c = "c2"
    /\ freed["ai"] = 1
    /\ connection["c2"].outgoing[1].ai = NULL
    /\ connection["c2"].last_ping_time = MaxTime

\* C6, as stated: on every connection pinged is true exactly when a PING has
\* been sent on it and no PONG has been received since; it is never true when
\* the PING was not sent because send_request failed.
C6_Original == \A c \in Conns : connection[c].pinged <=> pingsent[c] = "sent"

\* C6, amended: on every connection pinged is true exactly when send_ping has
\* been called on it and no PONG has been received since, whether or not
\* send_request accepted the PING.  send_ping sets pinged and last_ping_time
\* and hands one PING to send_request, whose result it returns; pong_h clears
\* pinged; no other operation changes pinged.
C6_PingedSincePingCalled ==
    /\ [](\A c \in Conns : connection[c].pinged <=> pingsent[c] # "none")
    /\ [][Calls("send_ping")
            => /\ connection' = [connection EXCEPT
                                   ![call'.c].pinged = TRUE,
                                   ![call'.c].last_ping_time = now]
               /\ Len(call'.sent) = 1
               /\ call'.sent[1].kind = "request"
               /\ call'.sent[1].c = call'.c
               /\ call'.sent[1].line = <<"8">>
               /\ call'.ret = call'.sent[1].ok]_vars
    /\ [][Calls("pong_h") => ~connection'[call'.c].pinged]_vars
    /\ [][\A c \in Conns :
            connection'[c].pinged # connection[c].pinged
              => call'.op \in {"send_ping", "pong_h"} /\ call'.c = c]_vars

\* send_ping has returned false, its PING refused, after the clock advanced:
\* pinged is set though no PING was sent.
C6_Witness ==
    /\ call.op = "send_ping"
    /\ ~call.ret
    /\ pingsent[call.c] = "refused"
    /\ connection[call.c].pinged
    /\ connection[call.c].last_ping_time = MaxTime

\* C7: ping_h hands exactly one PONG to send_request, on the connection the
\* PING came from, whatever the state of that connection; it changes no state
\* and returns what send_request returned.
C7_PingAnswered ==
    [][Calls("ping_h")
         => /\ Len(call'.sent) = 1
            /\ call'.sent[1].kind = "request"
            /\ call'.sent[1].c = call'.c
            /\ call'.sent[1].line = <<"9">>
            /\ call'.ret = call'.sent[1].ok
            /\ connection' = connection
            /\ node' = node]_vars

\* ping_h has returned false, the PONG refused, on the outgoing connection
\* while it waits for a PONG itself.
C7_Witness ==
    /\ call.op = "ping_h"
    /\ call.c = "c2"
    /\ ~call.ret
    /\ connection["c2"].pinged
    /\ connection["c2"].outgoing[1].ai # NULL

\* C8, as stated: with maxoutbufsize > 0 and twice outbuf.len at most
\* maxoutbufsize, send_tcppacket does not discard the packet, whatever rand()
\* returns.
C8_Original ==
    [][( /\ Calls("send_tcppacket")
         /\ maxoutbufsize > 0
         /\ 2 * connection[call'.c].outbuf_len <= maxoutbufsize )
         => call'.sent # <<>>]_vars

\* C9, as stated: with maxoutbufsize > 0 and outbuf.len at least
\* maxoutbufsize, send_tcppacket discards the packet, whatever rand() returns.
C9_Original ==
    [][( /\ Calls("send_tcppacket")
         /\ maxoutbufsize > 0
         /\ connection[call'.c].outbuf_len >= maxoutbufsize )
         => (call'.sent = <<>> /\ call'.ret)]_vars

\* C10: when send_tcppacket discards a packet it returns true, hands nothing
\* to send_request or send_meta and changes no state.
C10_DropIsInvisible ==
    [][( /\ Calls("send_tcppacket")
         /\ RandomEarlyDrop(connection[call'.c].outbuf_len, maxoutbufsize,
                            call'.rand) )
         => /\ call'.ret
            /\ call'.sent = <<>>
            /\ connection' = connection
            /\ node' = node]_vars

\* send_tcppacket has discarded a packet: the buffer is over its size and the
\* draw a half.
C10_Witness ==
    /\ call.op = "send_tcppacket"
    /\ maxoutbufsize = 10
    /\ connection[call.c].outbuf_len = 11
    /\ call.rand = RAND_MAX \div 2
    /\ call.sent = <<>>
    /\ call.ret

\* C11, as stated: the framing line send_tcppacket emits for a packet of
\* length L in 0..65535, handed to tcppacket_h, is accepted and leaves tcplen
\* of the receiving connection equal to L.
C11_Original ==
    [][( /\ call.op = "send_tcppacket"
         /\ Len(call.sent) = 2
         /\ call'.op = "tcppacket_h"
         /\ call'.request = call.sent[1].line )
         => /\ call'.ret
            /\ connection'[call'.c].tcplen = call.packet[1].len]_vars

\* The destination send_udp_info works with after its first statement: the
\* next hop of a node relayed by the local node, the relay of any other node.
Destination(table, to) ==
    IF table[to].via = myself THEN table[to].nexthop ELSE table[to].via

\* Which of the five conditions hold of from and the destination to.
Exits(table, from, to) ==
    {k \in 1..5 :
       CASE k = 1 -> to = myself
         [] k = 2 -> ~table[to].reachable
         [] k = 3 -> from = myself /\ table[to].connection # NULL
         [] k = 4 -> \E n \in {myself, from, to} :
                        (table[n].options \div OPTION_TCPONLY) % 2 = 1
         [] k = 5 -> table[table[to].nexthop].options \div 2 ^ 24 < 5}

\* The message is one UDP_INFO request.
IsUdpInfo(msg) ==
    /\ msg.kind = "request"
    /\ Len(msg.line) > 3
    /\ SubSeq(msg.line, 1, 3) = <<"2", "2", " ">>
    /\ Len(FieldsOf(msg.line)) = 4

\* A call of send_udp_info, alone or from udp_info_h, has returned.
SendsUdpInfo == Idle /\ call'.from # NULL

\* C12: with the destination that the first statement of send_udp_info
\* leaves, send_udp_info(from, to) returns true and emits nothing when any of
\* the five conditions holds, alone or not, and emits exactly one UDP_INFO
\* request when none holds.
C12_EachExitAlone ==
    [][SendsUdpInfo
         => LET exits == Exits(node', call'.from, Destination(node', call'.to))
            IN  IF exits # {}
                THEN call'.ret /\ call'.sent = <<>>
                ELSE Len(call'.sent) = 1 /\ IsUdpInfo(call'.sent[1])]_vars

\* send_udp_info has returned true without sending for one reason only: the
\* next hop of the destination is older than version 5.
C12_Witness ==
    /\ call.op = "send_udp_info"
    /\ call.ret
    /\ call.sent = <<>>
    /\ Exits(node, call.from, Destination(node, call.to)) = {5}

\* The request msg is on the connection to the next hop of the node to and
\* carries the names of from and to as its first two fields.
RoutedTo(table, msg, from, to) ==
    /\ msg.c = table[table[to].nexthop].connection
    /\ FieldsOf(msg.line)[1] = table[from].name
    /\ FieldsOf(msg.line)[2] = table[to].name

\* C13, as stated: the destination is to.nexthop when to.via is the local
\* node and the given to in every other case; an emitted request goes on the
\* connection to that destination's next hop and names from and it.
C13_Original ==
    [][(SendsUdpInfo /\ call'.sent # <<>>)
         => LET to == call'.to
                kept == IF node'[to].via = myself THEN node'[to].nexthop ELSE to
            IN  RoutedTo(node', call'.sent[1], call'.from, kept)]_vars

\* C13, amended: the destination is to.nexthop when to.via is the local node
\* and to.via in every other case (the given to when it is its own relay); an
\* emitted request goes on the connection to that destination's next hop and
\* names from and it.
C13_RelayIsDestination ==
    [][(SendsUdpInfo /\ call'.sent # <<>>)
         => RoutedTo(node', call'.sent[1], call'.from,
                     Destination(node', call'.to))]_vars

\* send_udp_info(a, b) has emitted a request while b is relayed by r.
C13_Witness ==
    /\ call.op = "send_udp_info"
    /\ call.from = "a"
    /\ call.to = "b"
    /\ node["b"].via = "r"
    /\ call.sent # <<>>

\* C14: when to.via is neither to nor the local node, a request that
\* send_udp_info(from, to) emits names to.via as its destination and goes on
\* the connection to the next hop of to.via; and, the relay of every relay
\* being that relay itself, no emitted request names as its destination a node
\* whose via is a third node.
C14_NeverPastRelay ==
    [][(SendsUdpInfo /\ call'.sent # <<>>)
         => LET msg == call'.sent[1]
                via == node'[call'.to].via
            IN  /\ via \notin {call'.to, myself}
                     => /\ FieldsOf(msg.line)[2] = node'[via].name
                        /\ msg.c = node'[node'[via].nexthop].connection
                /\ (\A n \in Nodes : node'[node'[n].via].via = node'[n].via)
                     => \A n \in Nodes :
                           node'[n].name = FieldsOf(msg.line)[2]
                             => node'[n].via \in {n, myself}]_vars

\* udp_info_h has forwarded a hint for b, which is relayed by r, and the
\* request names r.
C14_Witness ==
    /\ call.op = "udp_info_h"
    /\ call.to = "b"
    /\ node["b"].via = "r"
    /\ Len(call.sent) = 1
    /\ FieldsOf(call.sent[1].line)[2] = <<"r">>

\* The name is that of a node of the table.
Known(table, name) == \E n \in DOMAIN table : table[n].name = name

\* The node of the table that has the name.
Named(table, name) == CHOOSE n \in DOMAIN table : table[n].name = name

\* The step is udp_info_h on a line with four strings after the request
\* number, the first two of them identifiers.
ReceivesUdpInfo ==
    /\ Calls("udp_info_h")
    /\ LET fields == FieldsOf(call'.request)
       IN  /\ Len(fields) >= 4
           /\ IsIdentifier(fields[1])
           /\ IsIdentifier(fields[2])

\* No node's recorded address changes in the step.
AddressesKept == \A n \in Nodes : node'[n].address = node[n].address

\* C15: on a well-formed UDP_INFO udp_info_h returns true, changes no
\* address and emits nothing when from_name is unknown, and returns true and
\* emits nothing when from_name is known and to_name is unknown.
C15_UnknownTolerated ==
    [][ReceivesUdpInfo
         => LET fields == FieldsOf(call'.request)
            IN  /\ ~Known(node, fields[1])
                     => call'.ret /\ AddressesKept /\ call'.sent = <<>>
                /\ (Known(node, fields[1]) /\ ~Known(node, fields[2]))
                     => call'.ret /\ call'.sent = <<>>]_vars

\* udp_info_h has returned true on a request whose from_name is unknown.
C15_Witness ==
    /\ call.op = "udp_info_h"
    /\ Len(FieldsOf(call.request)) = 4
    /\ FieldsOf(call.request)[1] = <<"z">>
    /\ call.ret
    /\ call.sent = <<>>

\* C16: when the node named from_name has a via other than itself,
\* udp_info_h returns true, changes no address, does not call send_udp_info
\* and emits nothing.
C16_RelayBoundary ==
    [][( /\ ReceivesUdpInfo
         /\ LET from_name == FieldsOf(call'.request)[1]
            IN  /\ Known(node, from_name)
                /\ node[Named(node, from_name)].via # Named(node, from_name) )
         => /\ call'.ret
            /\ AddressesKept
            /\ call'.from = NULL
            /\ call'.sent = <<>>]_vars

\* udp_info_h has returned true on a request from a, which is relayed by r,
\* has no connection and no confirmed address, for the known node b, with an
\* address that a does not have.
C16_Witness ==
    /\ call.op = "udp_info_h"
    /\ node["a"].via = "r"
    /\ node["a"].connection = NULL
    /\ ~node["a"].udp_confirmed
    /\ Len(FieldsOf(call.request)) = 4
    /\ FieldsOf(call.request)[1] = <<"a">>
    /\ FieldsOf(call.request)[2] = <<"b">>
    /\ FieldsOf(call.request)[3] = <<"3">>
    /\ node["a"].address.address # <<"3">>
    /\ call.ret

\* The address advertised by a UDP_INFO line.
Advertised(line) ==
    LET fields == FieldsOf(line) IN str2sockaddr(fields[3], fields[4])

\* C17: a step changes the recorded address of a node only when it is
\* udp_info_h on a well-formed request naming that node as from, the node is
\* its own via, has no connection and no confirmed address, and the advertised
\* address differs from the recorded one; the new address is the advertised.
C17_AddressLearning ==
    [][\A n \in Nodes :
          node'[n].address # node[n].address
            => /\ ReceivesUdpInfo
               /\ node[n].name = FieldsOf(call'.request)[1]
               /\ node[n].via = n
               /\ node[n].connection = NULL
               /\ ~node[n].udp_confirmed
               /\ Advertised(call'.request) # node[n].address
               /\ node'[n].address = Advertised(call'.request)]_vars

\* udp_info_h has recorded for a the address that a request advertised.
C17_Witness ==
    /\ call.op = "udp_info_h"
    /\ Len(FieldsOf(call.request)) = 4
    /\ FieldsOf(call.request)[1] = <<"a">>
    /\ FieldsOf(call.request)[3] = <<"3">>
    /\ node["a"].address = Inet(<<"3">>, <<"2">>)
    /\ node["b"].address = Inet(<<"1">>, <<"2">>)

\* The step is udp_info_h reaching its last statement: from and to are known
\* and from is its own via.
Forwards ==
    /\ ReceivesUdpInfo
    /\ LET fields == FieldsOf(call'.request)
       IN  /\ Known(node, fields[1])
           /\ Known(node, fields[2])
           /\ node[Named(node, fields[1])].via = Named(node, fields[1])

\* udp_info_h has called send_udp_info(from, to) once and returned its result.
ForwardedOnce ==
    /\ LET fields == FieldsOf(call'.request)
       IN  /\ call'.from = Named(node, fields[1])
           /\ call'.to = Named(node, fields[2])
    /\ Len(call'.sent) <= 1
    /\ call'.ret = (call'.sent = <<>> \/ call'.sent[1].ok)

\* The address that from has after the learning step.
AfterLearning(from, line) ==
    IF node[from].connection = NULL /\ ~node[from].udp_confirmed
    THEN Advertised(line)
    ELSE node[from].address

\* The address a UDP_INFO request carries.
Carried(msg) ==
    LET fields == FieldsOf(msg.line) IN [address |-> fields[3], port |-> fields[4]]

\* C18: in the mesh a hint is forwarded finitely often: a request on its way
\* leads to no request on its way; the chain stops only where udp_info_h has
\* called send_udp_info and one of its five conditions holds; and no daemon
\* sends the hint on the connection it arrived on.
C18_HintStops ==
    /\ InFlight ~> ~InFlight
    /\ [][(InFlight /\ call'.op = "udp_info_h")
            => LET d == Ends(call'.c)[1]
               IN  IF call'.sent = <<>>
                   THEN /\ call'.from # NULL
                        /\ Exits(node'[d], call'.from,
                                 Destination(node'[d], call'.to)) # {}
                   ELSE /\ Len(call'.sent) = 1
                        /\ IsUdpInfo(call'.sent[1])
                        /\ call'.sent[1].c # call'.c]_vars

\* The hint that a started for b has passed m and r and stopped at b, for
\* which the destination is the local node.
C18_Witness ==
    /\ call.op = "udp_info_h"
    /\ call.c = "br"
    /\ call.sent = <<>>
    /\ FieldsOf(call.request)[1] = <<"a">>
    /\ call.to = myself

\* C19, as stated: at the forwarding step udp_info_h calls
\* send_udp_info(from, to) once and returns its result, and a forwarded
\* request carries from's address after the learning step: the advertised
\* address when from has no connection and no confirmed address, the recorded
\* address otherwise.
C19_Original ==
    [][Forwards
         => /\ ForwardedOnce
            /\ call'.sent # <<>>
                 => LET sa == AfterLearning(call'.from, call'.request)
                    IN  Carried(call'.sent[1])
                          = [address |-> sa.address, port |-> sa.port]]_vars

\* C19, amended: as stated when from is not the local node; when from is the
\* local node the forwarded request carries the local address of the
\* connection it is sent on.
C19_ForwardsAfterLearning ==
    [][Forwards
         => /\ ForwardedOnce
            /\ call'.sent # <<>>
                 => LET sa == IF call'.from # myself
                              THEN AfterLearning(call'.from, call'.request)
                              ELSE connection[call'.sent[1].c].local_address
                    IN  Carried(call'.sent[1])
                          = [address |-> sa.address, port |-> sa.port]]_vars

\* udp_info_h has forwarded a request from a carrying the address that the
\* received request advertised and a did not have before.
C19_Witness ==
    /\ call.op = "udp_info_h"
    /\ call.from = "a"
    /\ Len(call.sent) = 1
    /\ FieldsOf(call.request)[3] = <<"3">>
    /\ FieldsOf(call.sent[1].line)[3] = <<"3">>

\* C20, as stated: when send_tcppacket does not discard the packet it hands
\* send_request the PACKET line carrying the packet's length and then, with
\* nothing between, hands send_meta exactly that many payload bytes; when
\* send_request fails it returns false and hands send_meta nothing; otherwise
\* it returns what send_meta returned.  tcppacket_h, when it accepts a line,
\* changes nothing but tcplen and sends nothing.
C20_Original ==
    /\ [][( /\ Calls("send_tcppacket")
            /\ ~RandomEarlyDrop(connection[call'.c].outbuf_len, maxoutbufsize,
                                call'.rand) )
            => LET packet == call'.packet[1]
                   sent == call'.sent
               IN  /\ Len(sent) >= 1
                   /\ sent[1].kind = "request"
                   /\ sent[1].c = call'.c
                   /\ sent[1].line = <<"1", "7", " ">> \o NatToStr(packet.len)
                   /\ IF ~sent[1].ok
                      THEN Len(sent) = 1 /\ ~call'.ret
                      ELSE /\ Len(sent) = 2
                           /\ sent[2].kind = "meta"
                           /\ sent[2].c = call'.c
                           /\ sent[2].buffer = packet.data
                           /\ sent[2].length = packet.len
                           /\ call'.ret = sent[2].ok]_vars
    /\ [][(call'.op = "tcppacket_h" /\ call' # call /\ call'.ret)
            => /\ call'.sent = <<>>
               /\ connection' = [connection EXCEPT
                                   ![call'.c].tcplen = connection'[call'.c].tcplen]
               /\ node' = node]_vars

=============================================================================
